---- MODULE Spec2Model ----
(***************************************************************************)
(* Groups of playing cards (package cards): the group type of group.go,    *)
(* with its two slices modelled as Go slices over backing arrays, and the  *)
(* PerfectShuffle and Reverse utilities.                                   *)
(*                                                                         *)
(* A slice is [arr, off, len]: a window on backing array arr.  Card arrays *)
(* live in cmem, orientation arrays in bmem.  A Group value is a pointer   *)
(* to a group struct: an index into groups.                                *)
(***************************************************************************)
EXTENDS Integers, Sequences, FiniteSets, TLC

\* Largest length of either slice of a group the model lets an operation build.
MaxLen == 3
\* Largest number of group structs alive at once.
MaxGroups == 2
\* Largest number of method calls the caller makes on its groups.
MaxCalls == 2
\* Largest spare capacity a growing append may allocate beyond what it needs.
MaxSlack == 1

VARIABLES
    cmem,    \* backing arrays of []Card; cmem[1] is the caller's own card list
    bmem,    \* backing arrays of []bool
    groups,  \* the group structs: groups[g] = [cards |-> slice, flipd |-> slice]
    last,    \* the call that produced this state
    calls,   \* how many method calls the caller has made
    sep      \* the pairs of groups a draw or an insert has related

vars == <<cmem, bmem, groups, last, calls, sep>>

----------------------------------------------------------------------------
\* Card values

Nil == [kind |-> "nil", rank |-> 0, suit |-> 0]

NewCard(rank, suit) == [kind |-> "card", rank |-> rank, suit |-> suit]

Joker == [kind |-> "joker", rank |-> 0, suit |-> 0]

IsJoker(c) == c.kind = "joker"

\* The card list the caller owns and may hand to NewGroup(list[lo:hi]...).
CallerList == <<NewCard(2, 1), Joker>>

\* The argument lists NewGroup is called with literally: NewGroup(), NewGroup(c).
LitInputs == {<<>>, <<NewCard(1, 2)>>}

----------------------------------------------------------------------------
\* Go slices

NilSlice == [arr |-> 0, off |-> 0, len |-> 0]

Cap(m, s) == IF s.arr = 0 THEN 0 ELSE Len(m[s.arr]) - s.off

\* The elements of s, as a sequence.
Elems(m, s) == [k \in 1..s.len |-> m[s.arr][s.off + k]]

\* s[lo:hi] is legal when 0 <= lo <= hi <= cap(s).
CanSlice(m, s, lo, hi) == 0 <= lo /\ lo <= hi /\ hi <= Cap(m, s)

SubSlice(s, lo, hi) == [arr |-> s.arr, off |-> s.off + lo, len |-> hi - lo]

Min(a, b) == IF a < b THEN a ELSE b

\* copy(dst, vals): the first min(len(dst), len(vals)) elements are written.
copy(m, dst, vals) ==
    LET n == Min(dst.len, Len(vals))
    IN  IF n = 0 THEN m
        ELSE [m EXCEPT ![dst.arr] =
                [p \in 1..Len(@) |->
                    IF p > dst.off /\ p <= dst.off + n THEN vals[p - dst.off] ELSE @[p]]]

\* make([]T, n) with extra spare capacity: a fresh array of n + spare zero values.
make(m, n, spare, zero) ==
    IF n + spare = 0 THEN [m |-> m, s |-> NilSlice]
    ELSE [m |-> Append(m, [k \in 1..(n + spare) |-> zero]),
          s |-> [arr |-> Len(m) + 1, off |-> 0, len |-> n]]

\* append(s, vals...): in place when the capacity suffices, else into a fresh,
\* sufficiently large array (how much larger is the runtime's choice: slack).
append(m, s, vals, slack, zero) ==
    LET n == Len(vals)
    IN  IF n = 0 THEN [m |-> m, s |-> s]
        ELSE IF s.len + n <= Cap(m, s)
        THEN [m |-> copy(m, SubSlice(s, s.len, s.len + n), vals),
              s |-> [s EXCEPT !.len = @ + n]]
        ELSE LET a == make(m, s.len + n, slack, zero)
             IN  [m |-> copy(a.m, a.s, Elems(m, s) \o vals), s |-> a.s]

----------------------------------------------------------------------------
\* Program states and call results

State(cm, bm, gs) == [cmem |-> cm, bmem |-> bm, groups |-> gs]

\* A call that returns normally, and one that panics.
Ok(st, ret) == [ok |-> TRUE, st |-> st, ret |-> ret]

Panic == [ok |-> FALSE]

\* len(g.cards) and len(g.flipd)
LenCards(st, g) == st.groups[g].cards.len

LenFlipd(st, g) == st.groups[g].flipd.len

----------------------------------------------------------------------------
\* The group type

\* NewGroup(cards...): the struct keeps the slice it is handed.
NewGroup(st, cards) ==
    LET b == make(st.bmem, cards.len, 0, FALSE)
    IN  Ok(State(st.cmem, b.m,
                 Append(st.groups, [cards |-> cards, flipd |-> b.s])),
           Len(st.groups) + 1)

\* A faulty index: it also shifts index 0, as "if *i <= 0" would.
indexShiftsZero(st, g, i) == IF i <= 0 THEN i + LenCards(st, g) ELSE i

index(st, g, i) == IF i < 0 THEN i + LenCards(st, g) ELSE i

GroupLen(st, g) == LenCards(st, g)

InRange(i, n) == 0 <= i /\ i < n

At(m, s, i) == m[s.arr][s.off + i + 1]

Write(m, s, i, v) == [m EXCEPT ![s.arr][s.off + i + 1] = v]

\* s[i], s[j] = s[j], s[i]
SwapElems(m, s, i, j) ==
    [m EXCEPT ![s.arr] = [@ EXCEPT ![s.off + i + 1] = m[s.arr][s.off + j + 1],
                                   ![s.off + j + 1] = m[s.arr][s.off + i + 1]]]

Less(st, g, i0, j0) ==
    LET i == index(st, g, i0)
        j == index(st, g, j0)
        c == st.groups[g].cards
    IN  IF ~(InRange(i, c.len) /\ InRange(j, c.len)) THEN Panic
        ELSE LET ci == At(st.cmem, c, i)
                 cj == At(st.cmem, c, j)
             IN  IF ci = Nil \/ cj = Nil THEN Panic
                 ELSE IF IsJoker(ci) /\ ~IsJoker(cj) THEN Ok(st, TRUE)
                 ELSE IF ~IsJoker(ci) /\ IsJoker(cj) THEN Ok(st, FALSE)
                 ELSE IF ci.suit = cj.suit THEN Ok(st, ci.rank < cj.rank)
                 ELSE Ok(st, ci.suit < cj.suit)

\* A faulty Swap: it exchanges the cards and leaves the orientations in place.
SwapCardsOnly(st, g, i0, j0) ==
    LET i == index(st, g, i0)
        j == index(st, g, j0)
        c == st.groups[g].cards
    IN  IF ~(InRange(i, c.len) /\ InRange(j, c.len)) THEN Panic
        ELSE Ok(State(SwapElems(st.cmem, c, i, j), st.bmem, st.groups), Nil)

Swap(st, g, i0, j0) ==
    LET i == index(st, g, i0)
        j == index(st, g, j0)
        c == st.groups[g].cards
        d == st.groups[g].flipd
    IN  IF ~(InRange(i, c.len) /\ InRange(j, c.len)) THEN Panic
        ELSE IF ~(InRange(i, d.len) /\ InRange(j, d.len)) THEN Panic
        ELSE Ok(State(SwapElems(st.cmem, c, i, j), SwapElems(st.bmem, d, i, j),
                      st.groups), Nil)

Flipped(st, g, i0) ==
    LET i == index(st, g, i0)
        d == st.groups[g].flipd
    IN  IF ~InRange(i, d.len) THEN Panic ELSE Ok(st, At(st.bmem, d, i))

SetFlipped(st, g, i0, faceup) ==
    LET i == index(st, g, i0)
        d == st.groups[g].flipd
    IN  IF ~InRange(i, d.len) THEN Panic
        ELSE Ok(State(st.cmem, Write(st.bmem, d, i, faceup), st.groups), Nil)

FlippedArray(st, g) == Elems(st.bmem, st.groups[g].flipd)

FlipEach(st, g, faceup) ==
    LET d == st.groups[g].flipd
    IN  Ok(State(st.cmem, copy(st.bmem, d, [k \in 1..d.len |-> faceup]), st.groups), g)

\* for n := i; n < j; n++ { g.flipd[n] = !g.flipd[n] }
RECURSIVE ToggleLoop(_, _, _, _)
ToggleLoop(bm, d, n, j) ==
    IF n >= j THEN [ok |-> TRUE, m |-> bm]
    ELSE IF ~InRange(n, d.len) THEN [ok |-> FALSE, m |-> bm]
    ELSE ToggleLoop(Write(bm, d, n, ~At(bm, d, n)), d, n + 1, j)

\* A faulty reversal loop: it reverses the cards and not their orientations.
RECURSIVE ReverseLoopCardsOnly(_, _, _, _, _)
ReverseLoopCardsOnly(cm, bm, c, d, p) ==
    IF p < 0 THEN [cmem |-> cm, bmem |-> bm]
    ELSE ReverseLoopCardsOnly(SwapElems(cm, c, p, c.len - 1 - p), bm, c, d, p - 1)

\* for p := len(c)/2 - 1; p >= 0; p-- { swap c[p], c[q] and d[p], d[q] }
RECURSIVE ReverseLoop(_, _, _, _, _)
ReverseLoop(cm, bm, c, d, p) ==
    IF p < 0 THEN [cmem |-> cm, bmem |-> bm]
    ELSE LET q == c.len - 1 - p
         IN  ReverseLoop(SwapElems(cm, c, p, q), SwapElems(bm, d, p, q), c, d, p - 1)

\* A faulty flip: its toggling loop starts at i + 1.
flipToggleFromSecond(st, g, i, j) ==
    LET gc == st.groups[g].cards
        gd == st.groups[g].flipd
        t  == ToggleLoop(st.bmem, gd, i + 1, j)
    IN  IF ~t.ok THEN Panic
        ELSE IF ~CanSlice(st.cmem, gc, i, j) \/ ~CanSlice(t.m, gd, i, j) THEN Panic
        ELSE LET c == SubSlice(gc, i, j)
                 d == SubSlice(gd, i, j)
                 r == ReverseLoop(st.cmem, t.m, c, d, (c.len \div 2) - 1)
             IN  Ok(State(r.cmem, r.bmem, st.groups), Nil)

flip(st, g, i, j) ==
    LET gc == st.groups[g].cards
        gd == st.groups[g].flipd
        t  == ToggleLoop(st.bmem, gd, i, j)
    IN  IF ~t.ok THEN Panic
        ELSE IF ~CanSlice(st.cmem, gc, i, j) \/ ~CanSlice(t.m, gd, i, j) THEN Panic
        ELSE LET c == SubSlice(gc, i, j)
                 d == SubSlice(gd, i, j)
                 r == ReverseLoop(st.cmem, t.m, c, d, (c.len \div 2) - 1)
             IN  Ok(State(r.cmem, r.bmem, st.groups), Nil)

Flip(st, g, i0, j0) == flip(st, g, index(st, g, i0), index(st, g, j0))

FlipAll(st, g) ==
    LET r == flip(st, g, 0, LenCards(st, g))
    IN  IF r.ok THEN Ok(r.st, g) ELSE Panic

Card(st, g, i0) ==
    LET i == index(st, g, i0)
        c == st.groups[g].cards
    IN  IF i < 0 \/ i >= c.len THEN Ok(st, Nil) ELSE Ok(st, At(st.cmem, c, i))

Cards(st, g) == Elems(st.cmem, st.groups[g].cards)

\* Removes g.cards[i:j] and g.flipd[i:j] into a new group struct.
drawAt(st, g, i, j) ==
    LET n == j - i
        c == st.groups[g].cards
        d == st.groups[g].flipd
    IN  IF n < 0 THEN Panic                                     \* make([]Card, n)
        ELSE IF ~CanSlice(st.cmem, c, i, j) THEN Panic          \* g.cards[i:j]
        ELSE IF ~CanSlice(st.bmem, d, i, j) THEN Panic          \* g.flipd[i:j]
        ELSE IF ~(i <= c.len /\ j <= c.len) THEN Panic          \* g.cards[i:], g.cards[j:]
        ELSE IF ~(i <= d.len /\ j <= d.len) THEN Panic          \* g.flipd[i:], g.flipd[j:]
        ELSE LET nc  == make(st.cmem, n, 0, Nil)
                 cm1 == copy(nc.m, nc.s, Elems(st.cmem, SubSlice(c, i, j)))
                 nd  == make(st.bmem, n, 0, FALSE)
                 bm1 == copy(nd.m, nd.s, Elems(st.bmem, SubSlice(d, i, j)))
                 cm2 == copy(cm1, SubSlice(c, i, c.len), Elems(cm1, SubSlice(c, j, c.len)))
                 cm3 == copy(cm2, SubSlice(c, c.len - n, c.len), [k \in 1..n |-> Nil])
                 bm2 == copy(bm1, SubSlice(d, i, d.len), Elems(bm1, SubSlice(d, j, d.len)))
                 gs  == [st.groups EXCEPT ![g] = [cards |-> [c EXCEPT !.len = @ - n],
                                                  flipd |-> [d EXCEPT !.len = @ - n]]]
             IN  Ok(State(cm3, bm2, Append(gs, [cards |-> nc.s, flipd |-> nd.s])),
                    Len(st.groups) + 1)

\* A faulty clamp: a count beyond the length is let through.
ClampCountNoUpper(st, g, n) == IF n < 0 THEN 0 ELSE n

\* if n < 0 { n = 0 }; if n > len(g.cards) { n = len(g.cards) }
ClampCount(st, g, n) ==
    IF n < 0 THEN 0 ELSE IF n > LenCards(st, g) THEN LenCards(st, g) ELSE n

Draw(st, g, n0) ==
    LET n == ClampCount(st, g, n0)
    IN  drawAt(st, g, LenCards(st, g) - n, LenCards(st, g))

DrawBottom(st, g, n0) == drawAt(st, g, 0, ClampCount(st, g, n0))

DrawAt(st, g, i0, j0) == drawAt(st, g, index(st, g, i0), index(st, g, j0))

\* sc, sf: the spare capacity the runtime gives each append when it has to grow.
Insert(st, g, ng, sc, sf) ==
    LET a   == append(st.cmem, st.groups[g].cards, Cards(st, ng), sc, Nil)
        st1 == State(a.m, st.bmem, [st.groups EXCEPT ![g].cards = a.s])
        b   == append(st1.bmem, st1.groups[g].flipd, FlippedArray(st1, ng), sf, FALSE)
    IN  Ok(State(st1.cmem, b.m, [st1.groups EXCEPT ![g].flipd = b.s]), Nil)

InsertBottom(st, g, ng) ==
    LET gc  == st.groups[g].cards
        c   == make(st.cmem, gc.len + GroupLen(st, ng), 0, Nil)
        cm1 == copy(c.m, c.s, Cards(st, ng))
        cm2 == copy(cm1, SubSlice(c.s, GroupLen(st, ng), c.s.len), Elems(cm1, gc))
        st1 == State(cm2, st.bmem, [st.groups EXCEPT ![g].cards = c.s])
        gd  == st1.groups[g].flipd
        d   == make(st1.bmem, gd.len + GroupLen(st1, ng), 0, FALSE)
        bm1 == copy(d.m, d.s, FlippedArray(st1, ng))
        bm2 == copy(bm1, SubSlice(d.s, GroupLen(st1, ng), d.s.len), Elems(bm1, gd))
    IN  Ok(State(st1.cmem, bm2, [st1.groups EXCEPT ![g].flipd = d.s]), Nil)

\* A faulty clamp: the index is clamped without being normalised first.
ClampIndexNoIndex(st, g, i0) ==
    IF i0 < 0 THEN 0 ELSE IF i0 > LenCards(st, g) THEN LenCards(st, g) ELSE i0

\* g.index(&i); if i < 0 { i = 0 } else if i > len(g.cards) { i = len(g.cards) }
ClampIndex(st, g, i0) ==
    LET i == index(st, g, i0)
    IN  IF i < 0 THEN 0 ELSE IF i > LenCards(st, g) THEN LenCards(st, g) ELSE i

InsertAt(st, g, i0, ng) ==
    LET i   == ClampIndex(st, g, i0)
        gc  == st.groups[g].cards
        c   == make(st.cmem, gc.len + GroupLen(st, ng), 0, Nil)
        cm1 == copy(c.m, c.s, Elems(c.m, SubSlice(gc, 0, i)))
        cm2 == copy(cm1, SubSlice(c.s, i, c.s.len), Cards(st, ng))
        cm3 == copy(cm2, SubSlice(c.s, i + GroupLen(st, ng), c.s.len),
                    Elems(cm2, SubSlice(gc, i, gc.len)))
        st1 == State(cm3, st.bmem, [st.groups EXCEPT ![g].cards = c.s])
        gd  == st1.groups[g].flipd
        n1  == GroupLen(st1, ng)
        d   == make(st1.bmem, gd.len + n1, 0, FALSE)
    IN  IF ~CanSlice(st1.bmem, gd, 0, i) THEN Panic                  \* g.flipd[:i]
        ELSE IF i > gd.len THEN Panic                                \* g.flipd[i:]
        ELSE LET bm1 == copy(d.m, d.s, Elems(d.m, SubSlice(gd, 0, i)))
                 bm2 == copy(bm1, SubSlice(d.s, i, d.s.len), FlippedArray(st1, ng))
                 bm3 == copy(bm2, SubSlice(d.s, i + n1, d.s.len),
                             Elems(bm2, SubSlice(gd, i, gd.len)))
             IN  Ok(State(st1.cmem, bm3, [st1.groups EXCEPT ![g].flipd = d.s]), Nil)

----------------------------------------------------------------------------
\* Utilities

\* for i := g.Len() - 1; i > 0; i-- { g.Swap(i, j) }, js[i] the number drawn at
\* step i.  Returns the number of swaps made.
RECURSIVE ShuffleLoop(_, _, _, _, _)
ShuffleLoop(st, g, js, i, swaps) ==
    IF i > 0
    THEN LET r == Swap(st, g, i, js[i])
         IN  IF r.ok THEN ShuffleLoop(r.st, g, js, i - 1, swaps + 1) ELSE Panic
    ELSE Ok(st, swaps)

\* The outcomes of the random source: at step i a number of [0, i].
Draws(n) == [1..(n - 1) -> 0..(n - 1)]

ValidDraws(n) == {js \in Draws(n) : \A i \in 1..(n - 1) : js[i] <= i}

PerfectShuffle(st, g, js) == ShuffleLoop(st, g, js, GroupLen(st, g) - 1, 0)

\* for i := g.Len()/2 - 1; i >= 0; i-- { j := g.Len() - 1 - i; g.Swap(i, j) }
RECURSIVE ReverseSwaps(_, _, _)
ReverseSwaps(st, g, i) ==
    IF i >= 0
    THEN LET r == Swap(st, g, i, GroupLen(st, g) - 1 - i)
         IN  IF r.ok THEN ReverseSwaps(r.st, g, i - 1) ELSE Panic
    ELSE Ok(st, Nil)

Reverse(st, g) == ReverseSwaps(st, g, (GroupLen(st, g) \div 2) - 1)

----------------------------------------------------------------------------
\* The program: a caller holding a card list and some groups, making one call
\* at a time.  A call that panics ends the program, so it is no step.

\* The new number of array a once the arrays outside R are gone.
Renum(R, a) == IF a = 0 THEN 0 ELSE Cardinality({b \in R : b <= a})

\* Arrays no group and no caller refers to any more are reclaimed.
Collect(st) ==
    LET Rc == ({1} \cup {st.groups[g].cards.arr : g \in DOMAIN st.groups}) \ {0}
        Rb == {st.groups[g].flipd.arr : g \in DOMAIN st.groups} \ {0}
    IN  State([k \in 1..Cardinality(Rc) |-> st.cmem[CHOOSE a \in Rc : Renum(Rc, a) = k]],
              [k \in 1..Cardinality(Rb) |-> st.bmem[CHOOSE a \in Rb : Renum(Rb, a) = k]],
              [g \in DOMAIN st.groups |->
                  [cards |-> [st.groups[g].cards EXCEPT !.arr = Renum(Rc, @)],
                   flipd |-> [st.groups[g].flipd EXCEPT !.arr = Renum(Rb, @)]]])

Bounded(st) ==
    /\ Len(st.groups) <= MaxGroups
    /\ \A g \in DOMAIN st.groups : LenCards(st, g) <= MaxLen /\ LenFlipd(st, g) <= MaxLen

Cur == State(cmem, bmem, groups)

Gs == DOMAIN groups

\* Indices and counts a caller passes.
Ints == (0 - MaxLen - 1)..(MaxLen + 1)

Call(op, g, i, j, ng) == [op |-> op, g |-> g, neg |-> i < 0 \/ j < 0]

\* g and h, related by a draw or by an insert.
Rel(how, g, h) == [how |-> how, pair |-> {g, h}]

\* The call returned r: the program goes on from r.st.
Return(r, call, n, sp) ==
    /\ n <= MaxCalls
    /\ r.ok
    /\ Bounded(r.st)
    /\ LET s == Collect(r.st)
       IN  cmem' = s.cmem /\ bmem' = s.bmem /\ groups' = s.groups
    /\ last' = call
    /\ calls' = n
    /\ sep' = sp

\* A constructor call, and a method call on a group.
Construct(r, call) == Return(r, call, calls, sep)

Commit(r, call, sp) == Return(r, call, calls + 1, sp)

Init ==
    /\ cmem = <<CallerList>>
    /\ bmem = <<>>
    /\ groups = <<>>
    /\ last = Call("init", 0, 0, 0, 0)
    /\ calls = 0
    /\ sep = {}

\* NewGroup(c1, ..., cn): the arguments arrive in a fresh array.
DoNewGroup ==
    \E cs \in LitInputs :
        LET a == make(cmem, Len(cs), 0, Nil)
        IN  Construct(NewGroup(State(copy(a.m, a.s, cs), bmem, groups), a.s),
                      Call("NewGroup", Len(groups) + 1, 0, 0, 0))

\* NewGroup(list[lo:hi]...): the arguments are a slice of the caller's list.
DoNewGroupOf ==
    \E lo \in 0..Len(CallerList) : \E hi \in lo..Len(CallerList) :
        Construct(NewGroup(Cur, [arr |-> 1, off |-> lo, len |-> hi - lo]),
                  Call("NewGroupOf", Len(groups) + 1, lo, hi, 0))

DoSwap ==
    \E g \in Gs : \E i, j \in Ints :
        Commit(Swap(Cur, g, i, j), Call("Swap", g, i, j, 0), sep)

DoSetFlipped ==
    \E g \in Gs : \E i \in Ints : \E faceup \in BOOLEAN :
        Commit(SetFlipped(Cur, g, i, faceup), Call("SetFlipped", g, i, 0, 0), sep)

DoFlipEach ==
    \E g \in Gs : \E faceup \in BOOLEAN :
        Commit(FlipEach(Cur, g, faceup), Call("FlipEach", g, 0, 0, 0), sep)

DoFlip ==
    \E g \in Gs : \E i, j \in Ints :
        Commit(Flip(Cur, g, i, j), Call("Flip", g, i, j, 0), sep)

DoFlipAll ==
    \E g \in Gs : Commit(FlipAll(Cur, g), Call("FlipAll", g, 0, 0, 0), sep)

DoDraw ==
    \E g \in Gs : \E n \in Ints :
        Commit(Draw(Cur, g, n), Call("Draw", g, n, 0, 0),
               sep \cup {Rel("draw", g, Len(groups) + 1)})

DoDrawBottom ==
    \E g \in Gs : \E n \in Ints :
        Commit(DrawBottom(Cur, g, n), Call("DrawBottom", g, n, 0, 0),
               sep \cup {Rel("draw", g, Len(groups) + 1)})

DoDrawAt ==
    \E g \in Gs : \E i, j \in Ints :
        Commit(DrawAt(Cur, g, i, j), Call("DrawAt", g, i, j, 0),
               sep \cup {Rel("draw", g, Len(groups) + 1)})

DoInsert ==
    \E g, ng \in Gs : \E sc, sf \in 0..MaxSlack :
        Commit(Insert(Cur, g, ng, sc, sf), Call("Insert", g, 0, 0, ng),
               IF g = ng THEN sep ELSE sep \cup {Rel("insert", g, ng)})

DoInsertBottom ==
    \E g, ng \in Gs :
        Commit(InsertBottom(Cur, g, ng), Call("InsertBottom", g, 0, 0, ng),
               IF g = ng THEN sep ELSE sep \cup {Rel("insert", g, ng)})

DoInsertAt ==
    \E g, ng \in Gs : \E i \in Ints :
        Commit(InsertAt(Cur, g, i, ng), Call("InsertAt", g, i, 0, ng),
               IF g = ng THEN sep ELSE sep \cup {Rel("insert", g, ng)})

DoPerfectShuffle ==
    \E g \in Gs : \E js \in ValidDraws(GroupLen(Cur, g)) :
        Commit(PerfectShuffle(Cur, g, js), Call("PerfectShuffle", g, 0, 0, 0), sep)

DoReverse ==
    \E g \in Gs : Commit(Reverse(Cur, g), Call("Reverse", g, 0, 0, 0), sep)

Next ==
    \/ DoNewGroup
    \/ DoNewGroupOf
    \/ DoSwap
    \/ DoSetFlipped
    \/ DoFlipEach
    \/ DoFlip
    \/ DoFlipAll
    \/ DoDraw
    \/ DoDrawBottom
    \/ DoDrawAt
    \/ DoInsert
    \/ DoInsertBottom
    \/ DoInsertAt
    \/ DoPerfectShuffle
    \/ DoReverse

Spec == Init /\ [][Next]_vars

----------------------------------------------------------------------------
\* What a caller observes of a group

\* Both slices, whole.
View(st, g) == [cards |-> Cards(st, g), flipd |-> FlippedArray(st, g)]

\* Position by position (1 is the bottom): the card and its orientation.
Pairs(st, g) ==
    [k \in 1..GroupLen(st, g) |->
        [card |-> Card(st, g, k - 1).ret, faceup |-> Flipped(st, g, k - 1).ret]]

Sub(s, a, b) == [k \in 1..(b - a + 1) |-> s[a + k - 1]]

\* How often x occurs in s.
Count(s, x) == Cardinality({k \in DOMAIN s : s[k] = x})

SamePairs(s, t) ==
    /\ Len(s) = Len(t)
    /\ \A k \in DOMAIN s : Count(s, s[k]) = Count(t, s[k])

\* The ranges the flip claims are about: 0 <= i <= j <= Len() once normalised.
ValidRange(st, g, i, j) ==
    /\ 0 <= index(st, g, i)
    /\ index(st, g, i) <= index(st, g, j)
    /\ index(st, g, j) <= GroupLen(st, g)

----------------------------------------------------------------------------
\* C1: flipping the same valid range twice in succession (the range given by
\* non-negative or by negative indices) leaves the group with the card order
\* and the orientations it had before the first flip.
FlipTwiceRestores ==
    \A g \in Gs : \A i, j \in Ints :
        ValidRange(Cur, g, i, j) =>
            LET r1 == Flip(Cur, g, i, j)
            IN  /\ r1.ok
                /\ LET r2 == Flip(r1.st, g, i, j)
                   IN  r2.ok /\ View(r2.st, g) = View(Cur, g)

\* A flip has just been made on a group of two or more cards whose
\* orientations differ, so that one flip of the whole group changes it.
FlipTwiceWitness ==
    /\ last.op = "Flip"
    /\ GroupLen(Cur, last.g) >= 2
    /\ \E i, j \in 1..GroupLen(Cur, last.g) :
           Pairs(Cur, last.g)[i].faceup /= Pairs(Cur, last.g)[j].faceup
    /\ View(Flip(Cur, last.g, 0, GroupLen(Cur, last.g)).st, last.g) /= View(Cur, last.g)

\* C6: Flip(i, j) on a range 0 <= i <= j <= Len() puts at position i+k the
\* card that was at j-1-k, with its orientation negated, keeps every position
\* outside the range and the length; FlipAll does what Flip(0, Len()) does and
\* returns the receiver.
FlipEffect ==
    \A g \in Gs : \A i, j \in 0..GroupLen(Cur, g) :
        i <= j =>
            LET r == Flip(Cur, g, i, j)
                a == FlipAll(Cur, g)
                P == Pairs(Cur, g)
            IN  /\ r.ok
                /\ Len(Pairs(r.st, g)) = Len(P)
                /\ \A k \in 0..(j - i - 1) :
                       /\ Pairs(r.st, g)[i + k + 1].card = P[j - k].card
                       /\ Pairs(r.st, g)[i + k + 1].faceup = ~P[j - k].faceup
                /\ \A k \in 1..Len(P) : (k <= i \/ k > j) => Pairs(r.st, g)[k] = P[k]
                /\ a.ok
                /\ a.ret = g
                /\ a.st = Flip(Cur, g, 0, GroupLen(Cur, g)).st

\* FlipAll has just turned a face-down pile of three different cards over:
\* the former top card is at the bottom and every card is face-up.
FlipEffectWitness ==
    /\ last.op = "FlipAll"
    /\ Cards(Cur, last.g) = <<NewCard(1, 2), Joker, NewCard(2, 1)>>
    /\ \A k \in 1..3 : Pairs(Cur, last.g)[k].faceup

\* min(max(n, 0), N)
Clamped(n, N) == IF n < 0 THEN 0 ELSE IF n > N THEN N ELSE n

\* C7: for every n, Draw(n) returns a new group holding the top c cards with
\* their orientations, in order, and leaves the rest in the receiver;
\* DrawBottom(n) does the same with the bottom c cards; c = min(max(n, 0), N);
\* neither call fails.
DrawEffect ==
    \A g \in Gs : \A n \in Ints :
        LET N == GroupLen(Cur, g)
            c == Clamped(n, N)
            P == Pairs(Cur, g)
            t == Draw(Cur, g, n)
            b == DrawBottom(Cur, g, n)
        IN  /\ t.ok
            /\ t.ret \notin Gs
            /\ Pairs(t.st, t.ret) = Sub(P, N - c + 1, N)
            /\ Pairs(t.st, g) = Sub(P, 1, N - c)
            /\ GroupLen(t.st, g) = N - c
            /\ b.ok
            /\ b.ret \notin Gs
            /\ Pairs(b.st, b.ret) = Sub(P, 1, c)
            /\ Pairs(b.st, g) = Sub(P, c + 1, N)
            /\ GroupLen(b.st, g) = N - c

\* A draw has just split a group: the drawn group and the receiver both hold
\* cards, and a card of the drawn group is face-up.
DrawEffectWitness ==
    /\ last.op = "Draw"
    /\ Len(groups) = 2
    /\ GroupLen(Cur, last.g) >= 1
    /\ GroupLen(Cur, 2) >= 1
    /\ \E k \in 1..GroupLen(Cur, 2) : Pairs(Cur, 2)[k].faceup

\* The position InsertAt(i, h) inserts at: i + N if i < 0, then clamped to [0, N].
InsertPos(i, N) == Clamped(IF i < 0 THEN i + N ELSE i, N)

\* C8: for every i and every group h other than g, InsertAt(i, h) does not fail
\* and leaves g holding its former positions 0..p-1, then h's cards with h's
\* orientations, then its former positions p..N-1; h is unchanged.
InsertAtEffect ==
    \A g, h \in Gs : \A i \in Ints :
        g /= h =>
            LET N == GroupLen(Cur, g)
                p == InsertPos(i, N)
                P == Pairs(Cur, g)
                r == InsertAt(Cur, g, i, h)
            IN  /\ r.ok
                /\ Pairs(r.st, g) = Sub(P, 1, p) \o Pairs(Cur, h) \o Sub(P, p + 1, N)
                /\ GroupLen(r.st, g) = N + GroupLen(Cur, h)
                /\ View(r.st, h) = View(Cur, h)

\* InsertAt has just put a face-up card between the two cards of a group.
InsertAtEffectWitness ==
    /\ last.op = "InsertAt"
    /\ Cards(Cur, last.g) = <<NewCard(2, 1), NewCard(1, 2), Joker>>
    /\ Pairs(Cur, last.g)[2].faceup
    /\ ~Pairs(Cur, last.g)[1].faceup

\* C9: an index i of -N..-1 behaves at every indexed entry point as i + N
\* does: same result, same resulting state; Card(-1) is Card(Len()-1); and
\* Card(i) returns no card, without failing, when i normalises outside [0, N).
NegativeIndexUniform ==
    \A g \in Gs :
        LET N == GroupLen(Cur, g)
        IN  /\ N >= 1 => Card(Cur, g, 0 - 1) = Card(Cur, g, N - 1)
            /\ \A i \in Ints :
                   (IF i < 0 THEN i + N ELSE i) \notin 0..(N - 1)
                       => Card(Cur, g, i) = Ok(Cur, Nil)
            /\ \A i \in (0 - N)..(0 - 1) :
                   /\ Card(Cur, g, i) = Card(Cur, g, i + N)
                   /\ Card(Cur, g, i).ret = Cards(Cur, g)[i + N + 1]
                   /\ Flipped(Cur, g, i) = Flipped(Cur, g, i + N)
                   /\ \A b \in BOOLEAN :
                          SetFlipped(Cur, g, i, b) = SetFlipped(Cur, g, i + N, b)
                   /\ \A j \in Ints :
                          /\ Swap(Cur, g, i, j) = Swap(Cur, g, i + N, j)
                          /\ Swap(Cur, g, j, i) = Swap(Cur, g, j, i + N)
                          /\ Less(Cur, g, i, j) = Less(Cur, g, i + N, j)
                          /\ Less(Cur, g, j, i) = Less(Cur, g, j, i + N)
                          /\ Flip(Cur, g, i, j) = Flip(Cur, g, i + N, j)
                          /\ Flip(Cur, g, j, i) = Flip(Cur, g, j, i + N)
                          /\ DrawAt(Cur, g, i, j) = DrawAt(Cur, g, i + N, j)
                          /\ DrawAt(Cur, g, j, i) = DrawAt(Cur, g, j, i + N)
                   /\ \A h \in Gs : InsertAt(Cur, g, i, h) = InsertAt(Cur, g, i + N, h)

\* A call with a negative index has just set the second card from the top,
\* and only that card, face-up in a group of three cards.
NegativeIndexWitness ==
    /\ last.op = "SetFlipped"
    /\ last.neg
    /\ GroupLen(Cur, last.g) = 3
    /\ FlippedArray(Cur, last.g) = <<FALSE, TRUE, FALSE>>
    /\ Flipped(Cur, last.g, 0 - 2).ret

\* C10: whatever the random source returns, PerfectShuffle makes exactly
\* max(Len()-1, 0) swaps and leaves the group a permutation of what it held:
\* same length, same cards as often, each with its own orientation.
ShufflePermutes ==
    \A g \in Gs : \A js \in ValidDraws(GroupLen(Cur, g)) :
        LET N == GroupLen(Cur, g)
            r == PerfectShuffle(Cur, g, js)
        IN  /\ r.ok
            /\ r.ret = (IF N >= 1 THEN N - 1 ELSE 0)
            /\ GroupLen(r.st, g) = N
            /\ SamePairs(Pairs(r.st, g), Pairs(Cur, g))

\* PerfectShuffle has just moved the top card of a pile of three to the bottom.
ShufflePermutesWitness ==
    /\ last.op = "PerfectShuffle"
    /\ GroupLen(Cur, last.g) = 3
    /\ Cards(Cur, last.g)[1] = NewCard(1, 2)
    /\ Cards(Cur, last.g)[3] /= NewCard(1, 2)

\* The call that returned r left group b as it was.
Keeps(st, r, b) == r.ok => View(r.st, b) = View(st, b)

\* No mutating call a caller can make on group a changes group b.
NoCallChanges(st, a, b) ==
    /\ \A i, j \in Ints :
           /\ Keeps(st, Swap(st, a, i, j), b)
           /\ Keeps(st, Flip(st, a, i, j), b)
           /\ Keeps(st, DrawAt(st, a, i, j), b)
    /\ \A i \in Ints :
           /\ Keeps(st, Draw(st, a, i), b)
           /\ Keeps(st, DrawBottom(st, a, i), b)
           /\ \A faceup \in BOOLEAN : Keeps(st, SetFlipped(st, a, i, faceup), b)
           /\ \A h \in DOMAIN st.groups : Keeps(st, InsertAt(st, a, i, h), b)
    /\ \A faceup \in BOOLEAN : Keeps(st, FlipEach(st, a, faceup), b)
    /\ \A h \in DOMAIN st.groups :
           /\ Keeps(st, InsertBottom(st, a, h), b)
           /\ \A sc, sf \in 0..MaxSlack : Keeps(st, Insert(st, a, h, sc, sf), b)

\* C2: for every n, Draw(n) and then Insert of the drawn group leaves the
\* group with its original card order and orientations, and so does
\* DrawBottom(n) and then InsertBottom of the drawn group.
DrawInsertRestores ==
    \A g \in Gs : \A n \in Ints : \A sc, sf \in 0..MaxSlack :
        LET t  == Draw(Cur, g, n)
            b  == DrawBottom(Cur, g, n)
        IN  /\ t.ok
            /\ Insert(t.st, g, t.ret, sc, sf).ok
            /\ Pairs(Insert(t.st, g, t.ret, sc, sf).st, g) = Pairs(Cur, g)
            /\ b.ok
            /\ InsertBottom(b.st, g, b.ret).ok
            /\ Pairs(InsertBottom(b.st, g, b.ret).st, g) = Pairs(Cur, g)

\* C3: in every reachable state the card slice and the orientation slice of
\* every group have the same length, and a card that moves takes its
\* orientation with it.
ParallelArrays ==
    \A g \in Gs :
        /\ Len(Cards(Cur, g)) = Len(FlippedArray(Cur, g))
        /\ \A i, j \in 0..(GroupLen(Cur, g) - 1) :
               LET r == Swap(Cur, g, i, j)
               IN  /\ r.ok
                   /\ Pairs(r.st, g)[i + 1] = Pairs(Cur, g)[j + 1]
                   /\ Pairs(r.st, g)[j + 1] = Pairs(Cur, g)[i + 1]

\* C4: once a draw from G has returned d, or an insert has put h (not G
\* itself) into G, no later call on one of the two groups changes the cards or
\* the orientations of the other.
IndependentAfterTransfer ==
    \A rel \in sep : \A a \in rel.pair : \A b \in rel.pair \ {a} :
        NoCallChanges(Cur, a, b)

\* C5: no call on one group changes the card or the orientation at any
\* position of another group.
ExclusiveStorage ==
    \A a, b \in Gs : a /= b => NoCallChanges(Cur, a, b)

====
